---- MODULE Spec2Model ----
(***************************************************************************)
(* The mood-decision engine of Empathic-01: EmpatheticStateMachine of      *)
(* src/src_python/core/state_machine.py with the tables and thresholds of  *)
(* src/src_python/core/config.py.                                          *)
(*                                                                         *)
(* Conventions.  Python's None is the value None below, which differs from *)
(* every enum member (GestureLabel.NONE is the member "NONE").  Enum       *)
(* members are written by their member names.  Confidences are in          *)
(* hundredths (0.5 is 50).  Times are in milliseconds, as time.time()*1000 *)
(* is in the code; every time.time() read of one process_input call sees   *)
(* the same value clock, and time passes between calls (AdvanceTime).      *)
(* The input buffer, which the engine only appends to and clears, is kept  *)
(* as its length.                                                          *)
(***************************************************************************)
EXTENDS Integers, Sequences, FiniteSets, TLC

None == "None"

EmotionLabel ==
    {"HAPPY", "SAD", "SURPRISE", "NEUTRAL", "ANGRY", "FEAR", "DISGUST"}

GestureLabel ==
    {"OPEN_PALM", "THUMB_UP", "HEART_HAND", "INDEX_POINTING", "CLOSED_FIST",
     "OK_SIGN", "PEACE_SIGN", "NONE"}

MoodState ==
    {"CALM", "JOYFUL", "EMPATHETIC", "FOCUSED", "SUPPORTIVE", "CELEBRATORY",
     "NEUTRAL"}

(* StateMachineConfig defaults *)
state_transition_cooldown_ms == 500
gesture_hold_duration_ms == 300
min_emotion_confidence == 50
min_gesture_confidence == 60

(* thresholds and capacities written in state_machine.py *)
EmotionStabilityThreshold == 3
GestureStabilityThreshold == 2
MoodHistoryMaxLen == 100
InputBufferMaxLen == 10

EMOTION_GESTURE_REACTIONS ==
    (<<"SAD", "HEART_HAND">> :>
        [sfx |-> "compassionate_chime.wav", mood |-> "EMPATHETIC",
         message |-> "I sense you need support. I'm here for you."])
 @@ (<<"HAPPY", "THUMB_UP">> :>
        [sfx |-> "excited_ping.wav", mood |-> "CELEBRATORY",
         message |-> "That's wonderful! Let's celebrate together!"])
 @@ (<<"SAD", "OPEN_PALM">> :>
        [sfx |-> "gentle_wave.wav", mood |-> "SUPPORTIVE",
         message |-> "I see you. Take your time."])
 @@ (<<"NEUTRAL", "INDEX_POINTING">> :>
        [sfx |-> "focus_click.wav", mood |-> "FOCUSED",
         message |-> "I'm listening. Tell me more."])
 @@ (<<"HAPPY", "HEART_HAND">> :>
        [sfx |-> "love_sparkle.wav", mood |-> "JOYFUL",
         message |-> "Spreading joy together!"])
 @@ (<<"SURPRISE", "OPEN_PALM">> :>
        [sfx |-> "discovery_chime.wav", mood |-> "JOYFUL",
         message |-> "What an exciting discovery!"])
 @@ (<<"NEUTRAL", "THUMB_UP">> :>
        [sfx |-> "approval_ding.wav", mood |-> "CALM",
         message |-> "Got it! Moving forward."])

EMOTION_AMBIENCE ==
    ("HAPPY" :> "happy_lofi.wav") @@ ("SAD" :> "gentle_rain.wav")
 @@ ("NEUTRAL" :> "calm_ambient.wav") @@ ("SURPRISE" :> "curious_sparkle.wav")
 @@ ("ANGRY" :> "calming_waves.wav") @@ ("FEAR" :> "safe_embrace.wav")
 @@ ("DISGUST" :> "fresh_breeze.wav")

MOOD_AMBIENCE ==
    ("CALM" :> "calm_ambient.wav") @@ ("JOYFUL" :> "happy_lofi.wav")
 @@ ("EMPATHETIC" :> "gentle_piano.wav") @@ ("FOCUSED" :> "focus_binaural.wav")
 @@ ("SUPPORTIVE" :> "warm_embrace.wav")
 @@ ("CELEBRATORY" :> "celebration_loop.wav") @@ ("NEUTRAL" :> "soft_hum.wav")

(* Bounds of the model *)
StartTime == 1000
TimeStep == 100
MaxAdvances == 4
MaxTicks == 4

MaxTime == StartTime + MaxAdvances * TimeStep

(* The samples fed to the engine: an absent label comes with confidence 0, *)
(* a label with a confidence below, at or above the configured minimum.    *)
EmotionSamples ==
    {<<None, 0>>, <<"HAPPY", 30>>, <<"HAPPY", 90>>, <<"SAD", 50>>}

GestureSamples ==
    {<<None, 0>>, <<"HEART_HAND", 30>>, <<"HEART_HAND", 60>>,
     <<"THUMB_UP", 90>>, <<"NONE", 90>>}

SensoryInput(emotion, emotion_confidence, gesture, gesture_confidence) ==
    [emotion |-> emotion, emotion_confidence |-> emotion_confidence,
     gesture |-> gesture, gesture_confidence |-> gesture_confidence]

Frames ==
    { SensoryInput(e[1], e[2], g[1], g[2]) :
        e \in EmotionSamples, g \in GestureSamples }

VARIABLES
    sm,          \* the EmpatheticStateMachine instance: its fields
    clock,       \* time.time() * 1000
    result,      \* what the last process_input call returned: << >> for
                 \* None, <<reaction>> for a Reaction
    callbacks,   \* the listener calls the last operation made, in order
    last_op,     \* the last operation called on the engine
    last_frame,  \* the frame of the last process_input call
    ticks,       \* process_input calls since construction or reset
    emotion_run, \* observer: the trailing run of equal gated emotion samples
    gesture_run, \* observer: the trailing run of equal gated gesture samples
    only_happy,  \* observer: every frame so far was Happy with no gesture
    cooldown_script, \* observer: progress through CooldownScript
    resets,      \* observer: reset() calls in a row, the first on a used engine?
    returned_sfx, \* observer: the sound effects of the reactions returned
                 \* by process_input since construction or reset
    call,        \* a direct call of one method: its name, its arguments and,
                 \* once it has returned, its value
    detector,    \* the HandGestureDetector instance: its stability fields
    detected,    \* observer: the labels given to the detector's stabilizer,
                 \* what its last call returned, and whether the last
                 \* detect() call saw a hand
    reaction_queue, \* the engine's _reaction_queue, an asyncio.Queue
    consumer,    \* the task calling get_next_reaction: whether it waits on
                 \* the queue, and the reaction it got last
    audio_engine, \* the MoodAudioEngine instance: _running, _current_ambience
                 \* and _command_queue
    audio_worker, \* the _audio_worker thread: the command it has taken off
                 \* the queue and is processing
    tick_thread  \* the thread of EmpathicSystem.run(): where it is in the
                 \* handlers of a mood transition, and the ambience commands
                 \* it has put for that transition

engine == <<sm, clock, result, callbacks>>
observers ==
    <<last_op, last_frame, ticks, emotion_run, gesture_run, only_happy,
      cooldown_script, resets, returned_sfx>>
handoff == <<reaction_queue, consumer>>
audio == <<audio_engine, audio_worker, tick_thread>>
aside == <<call, detector, detected, handoff, audio>>
vars == <<engine, observers, aside>>

(* Python truthiness of an Optional enum value: every member is truthy. *)
Truthy(x) == x # None

Min(a, b) == IF a <= b THEN a ELSE b

(* Faulty variant: construction counts as a transition, made at the time *)
(* of construction.                                                      *)
InitialEngine_StampedAtStart ==
    [current_mood |-> "NEUTRAL",
     current_emotion |-> None,
     current_gesture |-> None,
     current_ambience |-> None,
     last_state_change |-> StartTime,
     last_sfx_trigger |-> 0,
     gesture_start_time |-> 0,
     mood_history |-> << >>,
     input_buffer_len |-> 0,
     emotion_stable_count |-> 0,
     gesture_stable_count |-> 0,
     last_stable_emotion |-> None,
     last_stable_gesture |-> None]

(* EmpatheticStateMachine.__init__ *)
InitialEngine ==
    [current_mood |-> "NEUTRAL",
     current_emotion |-> None,
     current_gesture |-> None,
     current_ambience |-> None,
     last_state_change |-> 0,
     last_sfx_trigger |-> 0,
     gesture_start_time |-> 0,
     mood_history |-> << >>,
     input_buffer_len |-> 0,
     emotion_stable_count |-> 0,
     gesture_stable_count |-> 0,
     last_stable_emotion |-> None,
     last_stable_gesture |-> None]

can_transition(s, now) ==
    (now - s.last_state_change) >= state_transition_cooldown_ms

(* Faulty variant: a start time of 0 is not taken as "no gesture". *)
is_gesture_held_NoZeroCheck(s, now) ==
    (now - s.gesture_start_time) >= gesture_hold_duration_ms

is_gesture_held(s, now) ==
    IF s.gesture_start_time = 0
    THEN FALSE
    ELSE (now - s.gesture_start_time) >= gesture_hold_duration_ms

(* Faulty variant: a sample that differs from the stable emotion is *)
(* accepted at once.                                                *)
stabilize_emotion_AcceptsAtOnce(s, emotion) ==
    [s EXCEPT
        !.emotion_stable_count =
            IF emotion = s.last_stable_emotion THEN @ + 1 ELSE 1,
        !.last_stable_emotion = emotion]

(* The engine after _stabilize_emotion(emotion); what the call returns is *)
(* read off by StableEmotion.                                             *)
stabilize_emotion(s, emotion) ==
    LET count == IF emotion = s.last_stable_emotion
                 THEN s.emotion_stable_count + 1
                 ELSE 1
    IN  [s EXCEPT
            !.emotion_stable_count = count,
            !.last_stable_emotion =
                IF count >= EmotionStabilityThreshold THEN emotion ELSE @]

(* Both return statements of _stabilize_emotion return the field as it is *)
(* after the call.                                                        *)
StableEmotion(s) == s.last_stable_emotion

(* Faulty variant: a new gesture is taken as already held for the hold *)
(* duration.                                                          *)
stabilize_gesture_BackDated(s, gesture, now) ==
    LET same == gesture = s.last_stable_gesture
        count == IF same THEN s.gesture_stable_count + 1 ELSE 1
    IN  [s EXCEPT
            !.gesture_stable_count = count,
            !.gesture_start_time =
                IF same THEN @
                ELSE IF Truthy(gesture) THEN now - gesture_hold_duration_ms
                ELSE 0,
            !.last_stable_gesture =
                IF count >= GestureStabilityThreshold THEN gesture ELSE @]

stabilize_gesture(s, gesture, now) ==
    LET same == gesture = s.last_stable_gesture
        count == IF same THEN s.gesture_stable_count + 1 ELSE 1
    IN  [s EXCEPT
            !.gesture_stable_count = count,
            !.gesture_start_time =
                IF same THEN @ ELSE IF Truthy(gesture) THEN now ELSE 0,
            !.last_stable_gesture =
                IF count >= GestureStabilityThreshold THEN gesture ELSE @]

StableGesture(s) == s.last_stable_gesture

(* Faulty variant: the gesture rules come before the exact-pair lookup. *)
calculate_mood_GestureFirst(emotion, gesture) ==
    IF gesture = "HEART_HAND" THEN "SUPPORTIVE"
    ELSE IF gesture = "THUMB_UP"
         THEN (IF emotion = "HAPPY" THEN "CELEBRATORY" ELSE "CALM")
    ELSE IF gesture = "INDEX_POINTING" THEN "FOCUSED"
    ELSE IF gesture = "OPEN_PALM"
         THEN (IF emotion = "SAD" THEN "EMPATHETIC" ELSE "CALM")
    ELSE IF Truthy(emotion) /\ Truthy(gesture)
            /\ <<emotion, gesture>> \in DOMAIN EMOTION_GESTURE_REACTIONS
    THEN EMOTION_GESTURE_REACTIONS[<<emotion, gesture>>].mood
    ELSE IF emotion = "HAPPY" THEN "JOYFUL"
    ELSE IF emotion = "SAD" THEN "EMPATHETIC"
    ELSE IF emotion \in {"ANGRY", "FEAR"} THEN "SUPPORTIVE"
    ELSE "NEUTRAL"

(* Faulty variant: the emotion baseline leaves Fear out. *)
calculate_mood_AngryOnly(emotion, gesture) ==
    IF Truthy(emotion) /\ Truthy(gesture)
       /\ <<emotion, gesture>> \in DOMAIN EMOTION_GESTURE_REACTIONS
    THEN EMOTION_GESTURE_REACTIONS[<<emotion, gesture>>].mood
    ELSE IF gesture = "HEART_HAND" THEN "SUPPORTIVE"
    ELSE IF gesture = "THUMB_UP"
         THEN (IF emotion = "HAPPY" THEN "CELEBRATORY" ELSE "CALM")
    ELSE IF gesture = "INDEX_POINTING" THEN "FOCUSED"
    ELSE IF gesture = "OPEN_PALM"
         THEN (IF emotion = "SAD" THEN "EMPATHETIC" ELSE "CALM")
    ELSE IF emotion = "HAPPY" THEN "JOYFUL"
    ELSE IF emotion = "SAD" THEN "EMPATHETIC"
    ELSE IF emotion = "ANGRY" THEN "SUPPORTIVE"
    ELSE "NEUTRAL"

(* Faulty variant: the final return is missing, so that the method falls *)
(* off its end and gives None.                                           *)
calculate_mood_NoDefault(emotion, gesture) ==
    IF Truthy(emotion) /\ Truthy(gesture)
       /\ <<emotion, gesture>> \in DOMAIN EMOTION_GESTURE_REACTIONS
    THEN EMOTION_GESTURE_REACTIONS[<<emotion, gesture>>].mood
    ELSE IF gesture = "HEART_HAND" THEN "SUPPORTIVE"
    ELSE IF gesture = "THUMB_UP"
         THEN (IF emotion = "HAPPY" THEN "CELEBRATORY" ELSE "CALM")
    ELSE IF gesture = "INDEX_POINTING" THEN "FOCUSED"
    ELSE IF gesture = "OPEN_PALM"
         THEN (IF emotion = "SAD" THEN "EMPATHETIC" ELSE "CALM")
    ELSE IF emotion = "HAPPY" THEN "JOYFUL"
    ELSE IF emotion = "SAD" THEN "EMPATHETIC"
    ELSE IF emotion \in {"ANGRY", "FEAR"} THEN "SUPPORTIVE"
    ELSE None

(* get_status(), called at time now *)
get_status(s, now) ==
    [mood |-> s.current_mood,
     emotion |-> s.current_emotion,
     gesture |-> s.current_gesture,
     ambience |-> s.current_ambience,
     history_length |-> Len(s.mood_history),
     can_transition |-> can_transition(s, now),
     gesture_held |-> is_gesture_held(s, now)]

(* _calculate_mood(emotion, gesture) *)
calculate_mood(emotion, gesture) ==
    IF Truthy(emotion) /\ Truthy(gesture)
       /\ <<emotion, gesture>> \in DOMAIN EMOTION_GESTURE_REACTIONS
    THEN EMOTION_GESTURE_REACTIONS[<<emotion, gesture>>].mood
    ELSE IF gesture = "HEART_HAND" THEN "SUPPORTIVE"
    ELSE IF gesture = "THUMB_UP"
         THEN (IF emotion = "HAPPY" THEN "CELEBRATORY" ELSE "CALM")
    ELSE IF gesture = "INDEX_POINTING" THEN "FOCUSED"
    ELSE IF gesture = "OPEN_PALM"
         THEN (IF emotion = "SAD" THEN "EMPATHETIC" ELSE "CALM")
    ELSE IF emotion = "HAPPY" THEN "JOYFUL"
    ELSE IF emotion = "SAD" THEN "EMPATHETIC"
    ELSE IF emotion \in {"ANGRY", "FEAR"} THEN "SUPPORTIVE"
    ELSE "NEUTRAL"

Reaction(mood, sfx, ambience, message, change, now) ==
    [mood |-> mood, sfx_to_play |-> sfx, ambience_to_play |-> ambience,
     message |-> message, should_change_ambience |-> change,
     timestamp |-> now]

(* Faulty variant: the ambience is looked up whether or not the mood *)
(* changed.                                                          *)
get_reaction_AmbienceAlways(s, emotion, gesture, new_mood, mood_changed, now) ==
    LET combo == <<emotion, gesture>>
        hit == /\ Truthy(emotion) /\ Truthy(gesture)
               /\ is_gesture_held(s, now)
               /\ combo \in DOMAIN EMOTION_GESTURE_REACTIONS
        ambience ==
            IF new_mood \in DOMAIN MOOD_AMBIENCE
                 THEN MOOD_AMBIENCE[new_mood]
            ELSE IF Truthy(emotion) /\ emotion \in DOMAIN EMOTION_AMBIENCE
                 THEN EMOTION_AMBIENCE[emotion]
            ELSE None
    IN  Reaction(new_mood,
                 IF hit THEN EMOTION_GESTURE_REACTIONS[combo].sfx ELSE None,
                 ambience,
                 IF hit THEN EMOTION_GESTURE_REACTIONS[combo].message ELSE None,
                 mood_changed, now)

(* Faulty variant: the emotion's ambience is tried before the mood's. *)
get_reaction_EmotionFirst(s, emotion, gesture, new_mood, mood_changed, now) ==
    LET combo == <<emotion, gesture>>
        hit == /\ Truthy(emotion) /\ Truthy(gesture)
               /\ is_gesture_held(s, now)
               /\ combo \in DOMAIN EMOTION_GESTURE_REACTIONS
        ambience ==
            IF ~mood_changed THEN None
            ELSE IF Truthy(emotion) /\ emotion \in DOMAIN EMOTION_AMBIENCE
                 THEN EMOTION_AMBIENCE[emotion]
            ELSE IF new_mood \in DOMAIN MOOD_AMBIENCE
                 THEN MOOD_AMBIENCE[new_mood]
            ELSE None
    IN  Reaction(new_mood,
                 IF hit THEN EMOTION_GESTURE_REACTIONS[combo].sfx ELSE None,
                 ambience,
                 IF hit THEN EMOTION_GESTURE_REACTIONS[combo].message ELSE None,
                 mood_changed, now)

(* _get_reaction(emotion, gesture, new_mood, mood_changed) on engine s at *)
(* time now.                                                              *)
get_reaction(s, emotion, gesture, new_mood, mood_changed, now) ==
    LET combo == <<emotion, gesture>>
        hit == /\ Truthy(emotion) /\ Truthy(gesture)
               /\ is_gesture_held(s, now)
               /\ combo \in DOMAIN EMOTION_GESTURE_REACTIONS
        ambience ==
            IF ~mood_changed THEN None
            ELSE IF new_mood \in DOMAIN MOOD_AMBIENCE
                 THEN MOOD_AMBIENCE[new_mood]
            ELSE IF Truthy(emotion) /\ emotion \in DOMAIN EMOTION_AMBIENCE
                 THEN EMOTION_AMBIENCE[emotion]
            ELSE None
    IN  Reaction(new_mood,
                 IF hit THEN EMOTION_GESTURE_REACTIONS[combo].sfx ELSE None,
                 ambience,
                 IF hit THEN EMOTION_GESTURE_REACTIONS[combo].message ELSE None,
                 mood_changed, now)

(* deque(maxlen=n).append *)
DequeAppend(q, x, maxlen) ==
    IF Len(q) >= maxlen THEN Append(Tail(q), x) ELSE Append(q, x)

(* A MoodHistory entry; its timestamp is the clock of the tick. *)
MoodHistory(mood, emotion, gesture, now) ==
    [mood |-> mood, emotion |-> emotion, gesture |-> gesture,
     timestamp |-> now, duration_ms |-> 0]

(* Faulty variant: the emotion label passes whatever its confidence. *)
GateEmotion_NoThreshold(frame) ==
    IF Truthy(frame.emotion) THEN frame.emotion ELSE None

(* The confidence filter at the head of process_input. *)
GateEmotion(frame) ==
    IF Truthy(frame.emotion)
       /\ frame.emotion_confidence >= min_emotion_confidence
    THEN frame.emotion ELSE None

GateGesture(frame) ==
    IF Truthy(frame.gesture)
       /\ frame.gesture_confidence >= min_gesture_confidence
    THEN frame.gesture ELSE None

(* Faulty variant: the guard looks at the cooldown alone. *)
MoodChanged_IgnoresCandidate(s, new_mood, now) ==
    can_transition(s, now)

(* Faulty variant: the guard accepts when either condition holds. *)
MoodChanged_Either(s, new_mood, now) ==
    new_mood # s.current_mood \/ can_transition(s, now)

(* Faulty variant: every tick is taken for a transition. *)
MoodChanged_Always(s, new_mood, now) ==
    TRUE

(* Whether the guard accepts the mood the tick proposes. *)
MoodChanged(s, new_mood, now) ==
    new_mood # s.current_mood /\ can_transition(s, now)

(* Faulty variant: every tick surfaces its reaction. *)
Emits_Always(mood_changed, reaction) ==
    TRUE

(* Whether process_input surfaces the reaction it built. *)
Emits(mood_changed, reaction) ==
    mood_changed \/ Truthy(reaction.sfx_to_play)

(* process_input(sensory_input) called on engine s at time now: the engine *)
(* after the call, the value returned (<<reaction>>, or << >> for None),    *)
(* and the listener calls in order.                                        *)
process_input(s, frame, now) ==
    LET s0 == [s EXCEPT !.input_buffer_len = Min(@ + 1, InputBufferMaxLen)]
        s1 == stabilize_emotion(s0, GateEmotion(frame))
        s2 == stabilize_gesture(s1, GateGesture(frame), now)
        stable_emotion == StableEmotion(s2)
        stable_gesture == StableGesture(s2)
        s3 == [s2 EXCEPT !.current_emotion = stable_emotion,
                         !.current_gesture = stable_gesture]
        new_mood == calculate_mood(stable_emotion, stable_gesture)
        mood_changed == MoodChanged(s3, new_mood, now)
        s4 == IF mood_changed
              THEN [s3 EXCEPT
                      !.current_mood = new_mood,
                      !.last_state_change = now,
                      !.mood_history =
                          DequeAppend(@, MoodHistory(new_mood, stable_emotion,
                                                     stable_gesture, now),
                                      MoodHistoryMaxLen)]
              ELSE s3
        reaction == get_reaction(s4, stable_emotion, stable_gesture,
                                 new_mood, mood_changed, now)
        emit == Emits(mood_changed, reaction)
    IN  [sm |-> s4,
         result |-> IF emit THEN <<reaction>> ELSE << >>,
         callbacks |->
             (IF mood_changed
              THEN << [fn |-> "on_mood_change", old |-> s.current_mood,
                       new |-> new_mood] >>
              ELSE << >>)
             \o (IF emit
                 THEN << [fn |-> "on_reaction", reaction |-> reaction] >>
                 ELSE << >>)]

(* Faulty variant: reset() leaves the two stability counters as they are. *)
reset_KeepsCounters(s) ==
    [s EXCEPT
        !.current_mood = "NEUTRAL",
        !.current_emotion = None,
        !.current_gesture = None,
        !.current_ambience = None,
        !.last_state_change = 0,
        !.last_sfx_trigger = 0,
        !.gesture_start_time = 0,
        !.last_stable_emotion = None,
        !.last_stable_gesture = None,
        !.mood_history = << >>,
        !.input_buffer_len = 0]

(* Faulty variant: reset() leaves the gesture start time as it is. *)
reset_KeepsGestureStart(s) ==
    [s EXCEPT
        !.current_mood = "NEUTRAL",
        !.current_emotion = None,
        !.current_gesture = None,
        !.current_ambience = None,
        !.last_state_change = 0,
        !.last_sfx_trigger = 0,
        !.emotion_stable_count = 0,
        !.gesture_stable_count = 0,
        !.last_stable_emotion = None,
        !.last_stable_gesture = None,
        !.mood_history = << >>,
        !.input_buffer_len = 0]

(* reset() *)
reset(s) ==
    [s EXCEPT
        !.current_mood = "NEUTRAL",
        !.current_emotion = None,
        !.current_gesture = None,
        !.current_ambience = None,
        !.last_state_change = 0,
        !.last_sfx_trigger = 0,
        !.gesture_start_time = 0,
        !.emotion_stable_count = 0,
        !.gesture_stable_count = 0,
        !.last_stable_emotion = None,
        !.last_stable_gesture = None,
        !.mood_history = << >>,
        !.input_buffer_len = 0]

(***************************************************************************)
(* The gesture classifier of HandGestureDetector (senses/vision_hands.py). *)
(* A landmark is a point [x, y] in hundredths of the image size (z plays   *)
(* no part in the classifier); landmarks is the sequence MediaPipe gives,  *)
(* landmarks[i] of the code being At(landmarks, i).  Confidences are in    *)
(* hundredths.  The code compares square roots and arctangents with        *)
(* thresholds; the same comparisons are made here on squared distances and *)
(* on the tangent that dot and cross product give, in thousandths.         *)
(***************************************************************************)
WRIST == 0
THUMB_CMC == 1
THUMB_MCP == 2
THUMB_IP == 3
THUMB_TIP == 4
INDEX_MCP == 5
INDEX_PIP == 6
INDEX_DIP == 7
INDEX_TIP == 8
MIDDLE_MCP == 9
MIDDLE_PIP == 10
MIDDLE_DIP == 11
MIDDLE_TIP == 12
RING_MCP == 13
RING_PIP == 14
RING_DIP == 15
RING_TIP == 16
PINKY_MCP == 17
PINKY_PIP == 18
PINKY_DIP == 19
PINKY_TIP == 20

LandmarkCount == 21

HandLandmark(x, y) == [x |-> x, y |-> y]

(* landmarks[i], Python's indices starting at 0 *)
At(landmarks, i) == landmarks[i + 1]

Abs(n) == IF n < 0 THEN -n ELSE n

(* _distance(p1, p2), squared *)
distance_squared(p1, p2) ==
    (p1.x - p2.x) * (p1.x - p2.x) + (p1.y - p2.y) * (p1.y - p2.y)

(* _distance(..) < _distance(..) * tenths / 10, on the squared distances *)
ShorterThan(d1_squared, d2_squared, tenths) ==
    100 * d1_squared < tenths * tenths * d2_squared

(* _distance(..) > _distance(..) * tenths / 10, on the squared distances *)
LongerThan(d1_squared, d2_squared, tenths) ==
    100 * d1_squared > tenths * tenths * d2_squared

(* _angle(a, b, c): the angle at b is abs(atan2(cross, dot)), between 0 and *)
(* 180 degrees; it is kept as the two products.                             *)
angle(a, b, c) ==
    LET ab == [x |-> a.x - b.x, y |-> a.y - b.y]
        cb == [x |-> c.x - b.x, y |-> c.y - b.y]
    IN  [dot |-> ab.x * cb.x + ab.y * cb.y,
         cross |-> ab.x * cb.y - ab.y * cb.x]

(* tan of 20, 30, 50 and 60 degrees, in thousandths *)
TanMilli == (20 :> 364) @@ (30 :> 577) @@ (50 :> 1192) @@ (60 :> 1732)

(* The angle is above `degrees` (90 or more): it lies past the right angle  *)
(* and within 180 - degrees of the straight line.                           *)
AngleAbove(ang, degrees) ==
    /\ ang.dot < 0
    /\ degrees > 90 =>
           1000 * Abs(ang.cross) < TanMilli[180 - degrees] * Abs(ang.dot)

(* The angle is below `degrees` (above 90). *)
AngleBelow(ang, degrees) ==
    ~ /\ ang.dot < 0
      /\ 1000 * Abs(ang.cross) <= TanMilli[180 - degrees] * Abs(ang.dot)

is_finger_extended(landmarks, mcp, pip, dip, tip) ==
    LET pip_angle == angle(At(landmarks, mcp), At(landmarks, pip),
                           At(landmarks, dip))
        dip_angle == angle(At(landmarks, pip), At(landmarks, dip),
                           At(landmarks, tip))
    IN  AngleAbove(pip_angle, 150) /\ AngleAbove(dip_angle, 150)

is_finger_curled(landmarks, mcp, pip, dip, tip) ==
    LET pip_angle == angle(At(landmarks, mcp), At(landmarks, pip),
                           At(landmarks, dip))
        dip_angle == angle(At(landmarks, pip), At(landmarks, dip),
                           At(landmarks, tip))
    IN  AngleBelow(pip_angle, 130) \/ AngleBelow(dip_angle, 130)

is_thumb_extended(landmarks) ==
    LET thumb_angle == angle(At(landmarks, THUMB_CMC), At(landmarks, THUMB_MCP),
                             At(landmarks, THUMB_IP))
        thumb_to_index == distance_squared(At(landmarks, THUMB_TIP),
                                           At(landmarks, INDEX_MCP))
        palm_width == distance_squared(At(landmarks, INDEX_MCP),
                                       At(landmarks, PINKY_MCP))
    IN  /\ AngleAbove(thumb_angle, 120)
        /\ LongerThan(thumb_to_index, palm_width, 6)

is_thumb_up_gesture(landmarks) ==
    LET thumb_pointing_up ==
            At(landmarks, THUMB_TIP).y < At(landmarks, THUMB_MCP).y - 5
        index_curled == is_finger_curled(landmarks, INDEX_MCP, INDEX_PIP,
                                         INDEX_DIP, INDEX_TIP)
        middle_curled == is_finger_curled(landmarks, MIDDLE_MCP, MIDDLE_PIP,
                                          MIDDLE_DIP, MIDDLE_TIP)
        ring_curled == is_finger_curled(landmarks, RING_MCP, RING_PIP,
                                        RING_DIP, RING_TIP)
        pinky_curled == is_finger_curled(landmarks, PINKY_MCP, PINKY_PIP,
                                         PINKY_DIP, PINKY_TIP)
    IN  /\ thumb_pointing_up
        /\ index_curled /\ middle_curled /\ ring_curled /\ pinky_curled

is_heart_hand_gesture(landmarks) ==
    LET tip_distance == distance_squared(At(landmarks, THUMB_TIP),
                                         At(landmarks, INDEX_TIP))
        palm_size == distance_squared(At(landmarks, WRIST),
                                      At(landmarks, MIDDLE_MCP))
        tips_close == ShorterThan(tip_distance, palm_size, 3)
        index_angle == angle(At(landmarks, INDEX_MCP), At(landmarks, INDEX_PIP),
                             At(landmarks, INDEX_DIP))
        index_curved == AngleAbove(index_angle, 90) /\ AngleBelow(index_angle, 160)
        middle_not_extended ==
            ~is_finger_extended(landmarks, MIDDLE_MCP, MIDDLE_PIP, MIDDLE_DIP,
                                MIDDLE_TIP)
        ring_not_extended ==
            ~is_finger_extended(landmarks, RING_MCP, RING_PIP, RING_DIP,
                                RING_TIP)
    IN  tips_close /\ index_curved
        /\ (middle_not_extended \/ ring_not_extended)

get_finger_states(landmarks) ==
    [thumb |-> is_thumb_extended(landmarks),
     index |-> is_finger_extended(landmarks, INDEX_MCP, INDEX_PIP, INDEX_DIP,
                                  INDEX_TIP),
     middle |-> is_finger_extended(landmarks, MIDDLE_MCP, MIDDLE_PIP,
                                   MIDDLE_DIP, MIDDLE_TIP),
     ring |-> is_finger_extended(landmarks, RING_MCP, RING_PIP, RING_DIP,
                                 RING_TIP),
     pinky |-> is_finger_extended(landmarks, PINKY_MCP, PINKY_PIP, PINKY_DIP,
                                  PINKY_TIP)]

(* sum(finger_states.values()) *)
ExtendedCount(finger_states) ==
    Cardinality({ f \in DOMAIN finger_states : finger_states[f] })

(* Faulty variant: Index-Pointing is tried before Heart-Hand. *)
gesture_cascade_PointingFirst(landmarks) ==
    LET finger_states == get_finger_states(landmarks)
        extended_count == ExtendedCount(finger_states)
        thumb_index_dist == distance_squared(At(landmarks, THUMB_TIP),
                                             At(landmarks, INDEX_TIP))
        palm_size == distance_squared(At(landmarks, WRIST),
                                      At(landmarks, MIDDLE_MCP))
    IN  IF is_thumb_up_gesture(landmarks) THEN <<"THUMB_UP", 92>>
        ELSE IF /\ finger_states.index /\ ~finger_states.middle
                /\ ~finger_states.ring /\ ~finger_states.pinky
             THEN <<"INDEX_POINTING", 88>>
        ELSE IF is_heart_hand_gesture(landmarks) THEN <<"HEART_HAND", 88>>
        ELSE IF /\ ShorterThan(thumb_index_dist, palm_size, 2)
                /\ finger_states.middle /\ finger_states.ring
                /\ finger_states.pinky
             THEN <<"OK_SIGN", 90>>
        ELSE IF /\ finger_states.index /\ finger_states.middle
                /\ ~finger_states.ring /\ ~finger_states.pinky
             THEN <<"PEACE_SIGN", 85>>
        ELSE IF extended_count >= 4
             THEN <<"OPEN_PALM", 80 + (extended_count - 4) * 5>>
        ELSE IF extended_count <= 1 THEN <<"CLOSED_FIST", 82>>
        ELSE IF extended_count >= 3 THEN <<"OPEN_PALM", 60>>
        ELSE <<"CLOSED_FIST", 55>>

(* Faulty variant: the default rule gives Open-Palm from two extended *)
(* fingers on.                                                        *)
gesture_cascade_FallbackAtTwo(landmarks) ==
    LET finger_states == get_finger_states(landmarks)
        extended_count == ExtendedCount(finger_states)
        thumb_index_dist == distance_squared(At(landmarks, THUMB_TIP),
                                             At(landmarks, INDEX_TIP))
        palm_size == distance_squared(At(landmarks, WRIST),
                                      At(landmarks, MIDDLE_MCP))
    IN  IF is_thumb_up_gesture(landmarks) THEN <<"THUMB_UP", 92>>
        ELSE IF is_heart_hand_gesture(landmarks) THEN <<"HEART_HAND", 88>>
        ELSE IF /\ ShorterThan(thumb_index_dist, palm_size, 2)
                /\ finger_states.middle /\ finger_states.ring
                /\ finger_states.pinky
             THEN <<"OK_SIGN", 90>>
        ELSE IF /\ finger_states.index /\ ~finger_states.middle
                /\ ~finger_states.ring /\ ~finger_states.pinky
             THEN <<"INDEX_POINTING", 88>>
        ELSE IF /\ finger_states.index /\ finger_states.middle
                /\ ~finger_states.ring /\ ~finger_states.pinky
             THEN <<"PEACE_SIGN", 85>>
        ELSE IF extended_count >= 4
             THEN <<"OPEN_PALM", 80 + (extended_count - 4) * 5>>
        ELSE IF extended_count <= 1 THEN <<"CLOSED_FIST", 82>>
        ELSE IF extended_count >= 2 THEN <<"OPEN_PALM", 60>>
        ELSE <<"CLOSED_FIST", 55>>

(* Faulty variant: a hand that none of the named rules takes and that has *)
(* fewer than three fingers extended gets no label.                       *)
gesture_cascade_NoDefault(landmarks) ==
    LET finger_states == get_finger_states(landmarks)
        extended_count == ExtendedCount(finger_states)
        thumb_index_dist == distance_squared(At(landmarks, THUMB_TIP),
                                             At(landmarks, INDEX_TIP))
        palm_size == distance_squared(At(landmarks, WRIST),
                                      At(landmarks, MIDDLE_MCP))
    IN  IF is_thumb_up_gesture(landmarks) THEN <<"THUMB_UP", 92>>
        ELSE IF is_heart_hand_gesture(landmarks) THEN <<"HEART_HAND", 88>>
        ELSE IF /\ ShorterThan(thumb_index_dist, palm_size, 2)
                /\ finger_states.middle /\ finger_states.ring
                /\ finger_states.pinky
             THEN <<"OK_SIGN", 90>>
        ELSE IF /\ finger_states.index /\ ~finger_states.middle
                /\ ~finger_states.ring /\ ~finger_states.pinky
             THEN <<"INDEX_POINTING", 88>>
        ELSE IF /\ finger_states.index /\ finger_states.middle
                /\ ~finger_states.ring /\ ~finger_states.pinky
             THEN <<"PEACE_SIGN", 85>>
        ELSE IF extended_count >= 4
             THEN <<"OPEN_PALM", 80 + (extended_count - 4) * 5>>
        ELSE IF extended_count <= 1 THEN <<"CLOSED_FIST", 82>>
        ELSE IF extended_count >= 3 THEN <<"OPEN_PALM", 60>>
        ELSE <<"NONE", 0>>

(* The rules of _classify_gesture on a hand of 21 landmarks, in order. *)
gesture_cascade(landmarks) ==
    LET finger_states == get_finger_states(landmarks)
        extended_count == ExtendedCount(finger_states)
        thumb_index_dist == distance_squared(At(landmarks, THUMB_TIP),
                                             At(landmarks, INDEX_TIP))
        palm_size == distance_squared(At(landmarks, WRIST),
                                      At(landmarks, MIDDLE_MCP))
    IN  IF is_thumb_up_gesture(landmarks) THEN <<"THUMB_UP", 92>>
        ELSE IF is_heart_hand_gesture(landmarks) THEN <<"HEART_HAND", 88>>
        ELSE IF /\ ShorterThan(thumb_index_dist, palm_size, 2)
                /\ finger_states.middle /\ finger_states.ring
                /\ finger_states.pinky
             THEN <<"OK_SIGN", 90>>
        ELSE IF /\ finger_states.index /\ ~finger_states.middle
                /\ ~finger_states.ring /\ ~finger_states.pinky
             THEN <<"INDEX_POINTING", 88>>
        ELSE IF /\ finger_states.index /\ finger_states.middle
                /\ ~finger_states.ring /\ ~finger_states.pinky
             THEN <<"PEACE_SIGN", 85>>
        ELSE IF extended_count >= 4
             THEN <<"OPEN_PALM", 80 + (extended_count - 4) * 5>>
        ELSE IF extended_count <= 1 THEN <<"CLOSED_FIST", 82>>
        ELSE IF extended_count >= 3 THEN <<"OPEN_PALM", 60>>
        ELSE <<"CLOSED_FIST", 55>>

(* Faulty variant: only a sequence that is too short is turned away. *)
classify_gesture_TooShortOnly(landmarks) ==
    IF Len(landmarks) < LandmarkCount THEN <<"NONE", 0>>
    ELSE gesture_cascade(landmarks)

(* _classify_gesture(landmarks): the label and the confidence *)
classify_gesture(landmarks) ==
    IF Len(landmarks) # LandmarkCount THEN <<"NONE", 0>>
    ELSE gesture_cascade(landmarks)

(***************************************************************************)
(* The gesture stabilizer of HandGestureDetector (senses/vision_hands.py). *)
(***************************************************************************)
GestureHistoryMaxLen == 5
GestureHistoryMinLen == 3

(* Counter(history)[g] *)
Count(history, g) ==
    Cardinality({ i \in 1..Len(history) : history[i] = g })

(* Counter(history).most_common(1)[0][0]: a label of the highest count, the *)
(* one met first in the history when several share it.                      *)
MostCommon(history) ==
    LET n == Len(history)
        first == CHOOSE i \in 1..n :
                    /\ \A j \in 1..n :
                           Count(history, history[j]) <= Count(history, history[i])
                    /\ \A j \in 1..(i - 1) :
                           Count(history, history[j]) < Count(history, history[i])
    IN  history[first]

(* Faulty variant: half of the history is taken for a majority. *)
detector_stabilize_gesture_HalfIsEnough(d, gesture) ==
    LET history == DequeAppend(d.gesture_history, gesture, GestureHistoryMaxLen)
        most_common == MostCommon(history)
        stable == IF Count(history, most_common) >= Len(history) \div 2
                  THEN most_common ELSE d.last_stable_gesture
    IN  IF Len(history) < GestureHistoryMinLen
        THEN [detector |-> [d EXCEPT !.gesture_history = history],
              out |-> gesture]
        ELSE [detector |-> [gesture_history |-> history,
                            last_stable_gesture |-> stable],
              out |-> stable]

(* HandGestureDetector._stabilize_gesture(gesture) on detector d: the *)
(* detector after the call and the label returned.                     *)
detector_stabilize_gesture(d, gesture) ==
    LET history == DequeAppend(d.gesture_history, gesture, GestureHistoryMaxLen)
        most_common == MostCommon(history)
        stable == IF Count(history, most_common) >= Len(history) \div 2 + 1
                  THEN most_common ELSE d.last_stable_gesture
    IN  IF Len(history) < GestureHistoryMinLen
        THEN [detector |-> [d EXCEPT !.gesture_history = history],
              out |-> gesture]
        ELSE [detector |-> [gesture_history |-> history,
                            last_stable_gesture |-> stable],
              out |-> stable]

(***************************************************************************)
(* Observers.  They record what was fed to the engine and never influence  *)
(* it.                                                                     *)
(***************************************************************************)
NoRun == [label |-> None, len |-> 0, since |-> 0, prior |-> None]

(* The trailing run of equal samples after one more sample: its label, its *)
(* length, when it began and the stable label the engine held before it.   *)
RunAfter(run, label, prior, now) ==
    IF run.len > 0 /\ run.label = label
    THEN [run EXCEPT !.len = @ + 1]
    ELSE [label |-> label, len |-> 1, since |-> now, prior |-> prior]

HappyOnly(frame) ==
    /\ frame.emotion = "HAPPY"
    /\ frame.emotion_confidence >= min_emotion_confidence
    /\ frame.gesture = None

Absent == SensoryInput(None, 0, None, 0)

(* The frames of the cooldown scenario, each with its time after the third: *)
(* three Happy frames (the third at offset 0), three frames with nothing    *)
(* detected (the third at 200 ms) and one more at 600 ms.  A step with      *)
(* offset -1 may come at any time up to the next timed step.                *)
CooldownScript ==
    << [frame |-> SensoryInput("HAPPY", 90, None, 0), at |-> -1],
       [frame |-> SensoryInput("HAPPY", 90, None, 0), at |-> -1],
       [frame |-> SensoryInput("HAPPY", 90, None, 0), at |-> 0],
       [frame |-> Absent, at |-> -1],
       [frame |-> Absent, at |-> -1],
       [frame |-> Absent, at |-> 200],
       [frame |-> Absent, at |-> 600] >>

ScriptOff == [pos |-> -1, t0 |-> 0]
ScriptStart == [pos |-> 0, t0 |-> 0]

ScriptAfter(script, frame, now) ==
    IF script.pos < 0 \/ script.pos >= Len(CooldownScript) THEN ScriptOff
    ELSE LET step == CooldownScript[script.pos + 1]
         IN  IF frame # step.frame THEN ScriptOff
             ELSE IF step.at = 0 THEN [pos |-> script.pos + 1, t0 |-> now]
             ELSE IF step.at > 0 /\ now # script.t0 + step.at THEN ScriptOff
             ELSE [script EXCEPT !.pos = @ + 1]

EngineInit ==
    /\ sm = InitialEngine
    /\ clock = StartTime
    /\ result = << >>
    /\ callbacks = << >>
    /\ last_op = "init"
    /\ last_frame = None
    /\ ticks = 0
    /\ emotion_run = NoRun
    /\ gesture_run = NoRun
    /\ only_happy = TRUE
    /\ cooldown_script = ScriptStart
    /\ resets = [count |-> 0, dirty |-> FALSE]
    /\ returned_sfx = {}

(* No direct call is under way. *)
NoCall == [fn |-> None, args |-> << >>, done |-> FALSE, out |-> None]

(* HandGestureDetector.__init__: the gesture stability fields *)
InitialDetector ==
    [gesture_history |-> << >>, last_stable_gesture |-> "NONE"]

DetectorInit ==
    /\ detector = InitialDetector
    /\ detected = [fed |-> << >>, out |-> None, hand |-> FALSE]

(* asyncio.Queue(maxsize): maxsize 0, the default, is a queue without a *)
(* limit.                                                               *)
Queue(maxsize) == [maxsize |-> maxsize, items |-> << >>]

(* Faulty variant: maxsize 0 is taken as room for nothing. *)
full_NoRoomAtZero(q) == Len(q.items) >= q.maxsize

(* Queue.full() *)
full(q) == IF q.maxsize <= 0 THEN FALSE ELSE Len(q.items) >= q.maxsize

(* Queue.put(item) on a queue that is not full: the item goes to the back. *)
put(q, item) == [q EXCEPT !.items = Append(@, item)]

(* self._reaction_queue = asyncio.Queue(), and a consumer that has not *)
(* asked yet.                                                          *)
HandoffInit ==
    /\ reaction_queue = Queue(0)
    /\ consumer = [waiting |-> FALSE, got |-> << >>]

(* MoodAudioEngine.__init__, with no worker thread yet, and              *)
(* EmpathicSystem before run().                                          *)
AudioInit ==
    /\ audio_engine = [running |-> FALSE, current_ambience |-> None,
                       command_queue |-> << >>]
    /\ audio_worker = [cmd |-> << >>]
    /\ tick_thread = [pc |-> "init", mood |-> "NEUTRAL", reaction |-> << >>,
                      in_play_ambience |-> FALSE, ambience_puts |-> 0,
                      transitions |-> 0]

Init ==
    /\ EngineInit
    /\ call = NoCall
    /\ DetectorInit
    /\ HandoffInit
    /\ AudioInit

(* One call of process_input, made by operation op. *)
Tick(frame, op) ==
    /\ \E r \in {process_input(sm, frame, clock)} :
           /\ sm' = r.sm
           /\ result' = r.result
           /\ callbacks' = r.callbacks
    /\ last_op' = op
    /\ last_frame' = frame
    /\ ticks' = ticks + 1
    /\ emotion_run' =
           RunAfter(emotion_run, GateEmotion(frame), sm.current_emotion, 0)
    /\ gesture_run' =
           RunAfter(gesture_run, GateGesture(frame), sm.current_gesture, clock)
    /\ only_happy' = (only_happy /\ HappyOnly(frame))
    /\ cooldown_script' = ScriptAfter(cooldown_script, frame, clock)
    /\ resets' = [count |-> 0, dirty |-> FALSE]
    /\ returned_sfx' =
           IF result' # << >> /\ Truthy(result'[1].sfx_to_play)
           THEN returned_sfx \cup {result'[1].sfx_to_play}
           ELSE returned_sfx
    /\ UNCHANGED clock

ProcessInput(frame) ==
    /\ Tick(frame, "process_input")
    /\ UNCHANGED aside

(* process_input_async(sensory_input): the reaction, if there is one, is *)
(* put on the queue; put() waits only while the queue is full.           *)
ProcessInputAsync(frame) ==
    /\ Tick(frame, "process_input_async")
    /\ IF result' # << >>
       THEN /\ ~full(reaction_queue)
            /\ reaction_queue' = put(reaction_queue, result'[1])
       ELSE UNCHANGED reaction_queue
    /\ UNCHANGED <<call, detector, detected, consumer, audio>>

(* get_next_reaction(): Queue.get() hands over the oldest reaction, or      *)
(* waits while the queue is empty and hands it over once there is one.      *)
GetNextReaction ==
    /\ IF reaction_queue.items # << >>
       THEN /\ consumer' = [waiting |-> FALSE,
                            got |-> <<Head(reaction_queue.items)>>]
            /\ reaction_queue' = [reaction_queue EXCEPT !.items = Tail(@)]
       ELSE /\ consumer' = [consumer EXCEPT !.waiting = TRUE]
            /\ UNCHANGED reaction_queue
    /\ UNCHANGED <<engine, observers, call, detector, detected, audio>>

(* Faulty variant: reset() makes a new queue, so that what waited on the *)
(* old one, reactions and consumer, is left behind.                     *)
Reset_NewQueue ==
    /\ sm' = reset(sm)
    /\ result' = << >>
    /\ callbacks' = << >>
    /\ last_op' = "reset"
    /\ last_frame' = None
    /\ ticks' = 0
    /\ emotion_run' = NoRun
    /\ gesture_run' = NoRun
    /\ only_happy' = TRUE
    /\ cooldown_script' = ScriptStart
    /\ resets' = IF resets.count = 0
                 THEN [count |-> 1, dirty |-> sm # InitialEngine]
                 ELSE [resets EXCEPT !.count = Min(@ + 1, 2)]
    /\ returned_sfx' = {}
    /\ reaction_queue' = Queue(0)
    /\ consumer' = [waiting |-> FALSE, got |-> << >>]
    /\ UNCHANGED <<clock, call, detector, detected, audio>>

Reset ==
    /\ sm' = reset(sm)
    /\ result' = << >>
    /\ callbacks' = << >>
    /\ last_op' = "reset"
    /\ last_frame' = None
    /\ ticks' = 0
    /\ emotion_run' = NoRun
    /\ gesture_run' = NoRun
    /\ only_happy' = TRUE
    /\ cooldown_script' = ScriptStart
    /\ resets' = IF resets.count = 0
                 THEN [count |-> 1, dirty |-> sm # InitialEngine]
                 ELSE [resets EXCEPT !.count = Min(@ + 1, 2)]
    /\ returned_sfx' = {}
    /\ UNCHANGED <<clock, aside>>

AdvanceTime ==
    /\ clock' = clock + TimeStep
    /\ UNCHANGED <<sm, result, callbacks, observers, aside>>

Next ==
    \/ \E frame \in Frames : ticks < MaxTicks /\ ProcessInput(frame)
    \/ Reset
    \/ clock + TimeStep <= MaxTime /\ AdvanceTime

Spec == Init /\ [][Next]_vars

(* The engine fed only the two frames of CooldownScript, for as many calls *)
(* and as long as the script lasts.                                        *)
ScriptFrames == { CooldownScript[i].frame : i \in 1..Len(CooldownScript) }
ScriptMaxTime == StartTime + CooldownScript[Len(CooldownScript)].at

CooldownNext ==
    \/ \E frame \in ScriptFrames :
           ticks < Len(CooldownScript) /\ ProcessInput(frame)
    \/ Reset
    \/ clock + TimeStep <= ScriptMaxTime /\ AdvanceTime

CooldownSpec == Init /\ [][CooldownNext]_vars

(* The engine held on one pose: from construction on, every frame shows Sad *)
(* and Heart-Hand at or above the minimum confidences, frames keep coming   *)
(* (the camera loop calls process_input for each) and time keeps advancing. *)
HoldFrames ==
    {SensoryInput("SAD", 50, "HEART_HAND", 60),
     SensoryInput("SAD", 90, "HEART_HAND", 90)}

HoldTick == \E frame \in HoldFrames : ticks < MaxTicks /\ ProcessInput(frame)

HoldAdvance == clock + TimeStep <= MaxTime /\ AdvanceTime

HoldNext == HoldTick \/ HoldAdvance

HoldSpec ==
    Init /\ [][HoldNext]_vars /\ WF_vars(HoldTick) /\ WF_vars(HoldAdvance)

(* The engine driven through its asyncio interface. *)
AsyncFrames ==
    {Absent, SensoryInput("SAD", 50, "HEART_HAND", 60),
     SensoryInput("HAPPY", 90, "THUMB_UP", 90)}

AsyncNext ==
    \/ \E frame \in AsyncFrames :
           ticks < MaxTicks /\ ProcessInputAsync(frame)
    \/ GetNextReaction
    \/ Reset
    \/ clock + TimeStep <= MaxTime /\ AdvanceTime

AsyncSpec == Init /\ [][AsyncNext]_vars

(***************************************************************************)
(* Direct calls.  A method that reads nothing but its arguments (and, for  *)
(* _get_reaction, the gesture start time and the clock) is called on       *)
(* arguments drawn from its parameter types; the call then returns.        *)
(***************************************************************************)
OptionalEmotion == EmotionLabel \cup {None}
OptionalGesture == GestureLabel \cup {None}

Calling(fn, args) == [fn |-> fn, args |-> args, done |-> FALSE, out |-> None]

Returned(fn) == call.fn = fn /\ call.done

MoodInit ==
    /\ EngineInit
    /\ DetectorInit
    /\ HandoffInit
    /\ AudioInit
    /\ \E emotion \in OptionalEmotion, gesture \in OptionalGesture :
           call = Calling("calculate_mood", <<emotion, gesture>>)

CalculateMood ==
    /\ call.fn = "calculate_mood"
    /\ ~call.done
    /\ call' = [call EXCEPT
                   !.done = TRUE,
                   !.out = calculate_mood(call.args[1], call.args[2])]
    /\ UNCHANGED <<engine, observers, detector, detected, handoff, audio>>

MoodNext == CalculateMood

MoodSpec == MoodInit /\ [][MoodNext]_vars

(* _get_reaction is called, with the mood _calculate_mood gives its labels, *)
(* on an engine that has processed at most ReactionMaxTicks frames.         *)
ReactionMaxTicks == 1

ReactionFrames == {Absent, SensoryInput(None, 0, "HEART_HAND", 60)}

ReactionInit ==
    /\ EngineInit
    /\ DetectorInit
    /\ HandoffInit
    /\ AudioInit
    /\ \E emotion \in OptionalEmotion, gesture \in OptionalGesture,
          mood_changed \in BOOLEAN :
           call = Calling("get_reaction",
                          <<emotion, gesture, calculate_mood(emotion, gesture),
                            mood_changed>>)

GetReaction ==
    /\ call.fn = "get_reaction"
    /\ ~call.done
    /\ call' = [call EXCEPT
                   !.done = TRUE,
                   !.out = get_reaction(sm, call.args[1], call.args[2],
                                        call.args[3], call.args[4], clock)]
    /\ UNCHANGED <<engine, observers, detector, detected, handoff, audio>>

ReactionNext ==
    \/ \E frame \in ReactionFrames :
           ~call.done /\ ticks < ReactionMaxTicks /\ ProcessInput(frame)
    \/ ~call.done /\ clock + TimeStep <= MaxTime /\ AdvanceTime
    \/ GetReaction

ReactionSpec == ReactionInit /\ [][ReactionNext]_vars

(***************************************************************************)
(* Hands given to _classify_gesture.  A hand is put together from a shape  *)
(* for the thumb and one for each finger; a finger shape is the offsets of *)
(* its PIP, DIP and TIP joints from its MCP joint (y grows downwards).     *)
(***************************************************************************)
Wrist == HandLandmark(50, 90)

KnuckleOf ==
    [index |-> HandLandmark(40, 60), middle |-> HandLandmark(50, 58),
     ring |-> HandLandmark(58, 60), pinky |-> HandLandmark(64, 64)]

FingerShapes ==
    [straight |-> <<HandLandmark(0, -10), HandLandmark(0, -20),
                    HandLandmark(0, -30)>>,
     bowed |-> <<HandLandmark(0, -10), HandLandmark(7, -25),
                 HandLandmark(14, -40)>>,
     bent |-> <<HandLandmark(0, -10), HandLandmark(5, -16),
                HandLandmark(15, -17)>>,
     curled |-> <<HandLandmark(0, -10), HandLandmark(5, -5),
                  HandLandmark(3, 0)>>]

Shifted(p, offset) == HandLandmark(p.x + offset.x, p.y + offset.y)

(* The MCP, PIP, DIP and TIP landmarks of a finger. *)
Finger(mcp, shape) ==
    <<mcp, Shifted(mcp, shape[1]), Shifted(mcp, shape[2]),
      Shifted(mcp, shape[3])>>

(* The CMC, MCP, IP and TIP landmarks of a thumb: raised, held out to the  *)
(* side, folded over the palm, or brought to the tip of the index finger   *)
(* (touching it, or near it).                                              *)
Thumb(shape, index_tip) ==
    CASE shape = "up" ->
            <<HandLandmark(60, 80), HandLandmark(65, 70), HandLandmark(67, 60),
              HandLandmark(68, 50)>>
      [] shape = "side" ->
            <<HandLandmark(60, 80), HandLandmark(68, 78), HandLandmark(76, 77),
              HandLandmark(84, 76)>>
      [] shape = "tucked" ->
            <<HandLandmark(60, 80), HandLandmark(62, 72), HandLandmark(55, 70),
              HandLandmark(48, 68)>>
      [] shape = "touching" ->
            <<HandLandmark(60, 80), HandLandmark(62, 72), HandLandmark(60, 60),
              Shifted(index_tip, HandLandmark(3, 0))>>
      [] shape = "near" ->
            <<HandLandmark(60, 80), HandLandmark(62, 72), HandLandmark(60, 60),
              Shifted(index_tip, HandLandmark(8, 0))>>

ThumbShapes == {"up", "side", "tucked", "touching", "near"}
IndexShapes == {"straight", "bowed", "bent", "curled"}
OtherShapes == {"straight", "bent", "curled"}

(* The 21 landmarks in MediaPipe's order: wrist, thumb, index, middle,     *)
(* ring, pinky.                                                            *)
Hand(thumb, index, middle, ring, pinky) ==
    LET index_finger == Finger(KnuckleOf.index, FingerShapes[index])
    IN  <<Wrist>> \o Thumb(thumb, index_finger[4]) \o index_finger
          \o Finger(KnuckleOf.middle, FingerShapes[middle])
          \o Finger(KnuckleOf.ring, FingerShapes[ring])
          \o Finger(KnuckleOf.pinky, FingerShapes[pinky])

Hands ==
    { Hand(thumb, index, middle, ring, pinky) :
        thumb \in ThumbShapes, index \in IndexShapes,
        middle \in OtherShapes, ring \in OtherShapes, pinky \in OtherShapes }

(* Sequences of another length: none, one landmark short, one too many. *)
WrongLength ==
    {<< >>} \cup { SubSeq(hand, 1, Len(hand) - 1) : hand \in Hands }
            \cup { Append(hand, Wrist) : hand \in Hands }

ClassifierInit ==
    /\ EngineInit
    /\ DetectorInit
    /\ HandoffInit
    /\ AudioInit
    /\ \/ \E landmarks \in Hands \cup WrongLength :
              call = Calling("classify_gesture", landmarks)
       \/ \E landmarks \in Hands :
              call = Calling("is_heart_hand_gesture", landmarks)

ClassifyGesture ==
    /\ call.fn = "classify_gesture"
    /\ ~call.done
    /\ call' = [call EXCEPT !.done = TRUE, !.out = classify_gesture(call.args)]
    /\ UNCHANGED <<engine, observers, detector, detected, handoff, audio>>

(* _is_heart_hand_gesture called on its own, on a 21-landmark hand. *)
IsHeartHandGesture ==
    /\ call.fn = "is_heart_hand_gesture"
    /\ ~call.done
    /\ call' = [call EXCEPT !.done = TRUE,
                            !.out = is_heart_hand_gesture(call.args)]
    /\ UNCHANGED <<engine, observers, detector, detected, handoff, audio>>

ClassifierNext == ClassifyGesture \/ IsHeartHandGesture

ClassifierSpec == ClassifierInit /\ [][ClassifierNext]_vars

(***************************************************************************)
(* The detector's stabilizer over the frames of a camera: detect() on a    *)
(* frame with a hand classifies the pose and hands the label to            *)
(* _stabilize_gesture; on a frame without a hand it returns None and       *)
(* leaves the stabilizer alone.                                            *)
(***************************************************************************)
MaxDetects == 6

RawLabels == {"OPEN_PALM", "THUMB_UP", "HEART_HAND"}

DetectHand(gesture) ==
    /\ \E r \in {detector_stabilize_gesture(detector, gesture)} :
           /\ detector' = r.detector
           /\ detected' = [fed |-> Append(detected.fed, gesture),
                           out |-> r.out, hand |-> TRUE]
    /\ UNCHANGED <<engine, observers, call, handoff, audio>>

DetectNoHand ==
    /\ detected' = [detected EXCEPT !.hand = FALSE]
    /\ UNCHANGED <<engine, observers, call, detector, handoff, audio>>

DetectorNext ==
    \/ \E gesture \in RawLabels :
           Len(detected.fed) < MaxDetects /\ DetectHand(gesture)
    \/ DetectNoHand

DetectorSpec == Init /\ [][DetectorNext]_vars

(***************************************************************************)
(* EmpathicSystem and its MoodAudioEngine (main.py, senses/audio_output.py) *)
(* on a mood transition.  The thread of run() calls the handlers the       *)
(* engine was given: _handle_mood_change, then _handle_reaction; both end  *)
(* in play_ambience, which reads _current_ambience and puts a command on   *)
(* _command_queue.  The _audio_worker thread takes commands off the queue  *)
(* and, when it has played an ambience, writes _current_ambience.  The two *)
(* threads interleave between any two of these steps.                      *)
(***************************************************************************)
MaxTransitions == 2

(* The stable labels of the transitions the handlers are called for. *)
TransitionLabels == {<<None, None>>, <<"HAPPY", None>>, <<"SAD", None>>}

AudioCommand(action, layer, filename) ==
    [action |-> action, layer |-> layer, filename |-> filename]

(* play_ambience(filename), after its "already playing" test: the command *)
(* it puts on engine a's queue (fade is left at its default, True).       *)
play_ambience(a, filename) ==
    IF Truthy(a.current_ambience)
    THEN AudioCommand("fade_to", "AMBIENCE", filename)
    ELSE AudioCommand("play", "AMBIENCE", filename)

(* play_sfx(filename) *)
play_sfx(filename) == AudioCommand("play", "SFX", filename)

(* _command_queue.put(cmd) *)
PutCommand(a, cmd) == [a EXCEPT !.command_queue = Append(@, cmd)]

(* The file play_ambience is called with by the handler the thread is in: *)
(* set_mood_ambience(new_mood) in _handle_mood_change, the reaction's     *)
(* ambience in _handle_reaction.                                          *)
AmbienceAsked ==
    IF tick_thread.pc = "on_mood_change"
    THEN MOOD_AMBIENCE[tick_thread.mood]
    ELSE tick_thread.reaction[1].ambience_to_play

(* Where the thread goes when the handler it is in returns. *)
AfterHandler ==
    IF tick_thread.pc = "on_mood_change" THEN "on_reaction" ELSE "idle"

(* run(): audio_engine.start(), then set_mood_ambience(MoodState.NEUTRAL). *)
Run ==
    /\ tick_thread.pc = "init"
    /\ audio_engine' =
           LET started == [audio_engine EXCEPT !.running = TRUE]
               filename == MOOD_AMBIENCE["NEUTRAL"]
           IN  IF filename = started.current_ambience THEN started
               ELSE PutCommand(started, play_ambience(started, filename))
    /\ tick_thread' = [tick_thread EXCEPT !.pc = "idle"]
    /\ UNCHANGED <<engine, observers, call, detector, detected, handoff,
                   audio_worker>>

(* The engine accepts a transition to the mood of the stable labels: it    *)
(* has replaced current_mood and built the reaction, and calls the         *)
(* handlers next.                                                          *)
MoodTransition(emotion, gesture) ==
    LET new_mood == calculate_mood(emotion, gesture)
    IN  /\ tick_thread.pc = "idle"
        /\ new_mood # tick_thread.mood
        /\ tick_thread' =
               [tick_thread EXCEPT
                   !.pc = "on_mood_change",
                   !.mood = new_mood,
                   !.reaction = <<get_reaction(sm, emotion, gesture, new_mood,
                                               TRUE, clock)>>,
                   !.ambience_puts = 0,
                   !.transitions = @ + 1]
        /\ UNCHANGED <<engine, observers, call, detector, detected, handoff,
                       audio_engine, audio_worker>>

(* _handle_mood_change(old_mood, new_mood): set_mood_ambience(new_mood),   *)
(* up to and with the "already playing" test of play_ambience.             *)
HandleMoodChange ==
    /\ tick_thread.pc = "on_mood_change"
    /\ ~tick_thread.in_play_ambience
    /\ tick_thread' =
           IF tick_thread.mood \in DOMAIN MOOD_AMBIENCE
              /\ AmbienceAsked # audio_engine.current_ambience
           THEN [tick_thread EXCEPT !.in_play_ambience = TRUE]
           ELSE [tick_thread EXCEPT !.pc = AfterHandler]
    /\ UNCHANGED <<engine, observers, call, detector, detected, handoff,
                   audio_engine, audio_worker>>

(* _handle_reaction(reaction): the sfx, if there is one, is put on the     *)
(* queue; then play_ambience up to and with its "already playing" test.    *)
HandleReaction ==
    /\ tick_thread.pc = "on_reaction"
    /\ ~tick_thread.in_play_ambience
    /\ LET reaction == tick_thread.reaction[1]
       IN  /\ audio_engine' =
                  IF Truthy(reaction.sfx_to_play)
                  THEN PutCommand(audio_engine, play_sfx(reaction.sfx_to_play))
                  ELSE audio_engine
           /\ tick_thread' =
                  IF /\ reaction.should_change_ambience
                     /\ Truthy(reaction.ambience_to_play)
                     /\ reaction.ambience_to_play
                            # audio_engine.current_ambience
                  THEN [tick_thread EXCEPT !.in_play_ambience = TRUE]
                  ELSE [tick_thread EXCEPT !.pc = AfterHandler]
    /\ UNCHANGED <<engine, observers, call, detector, detected, handoff,
                   audio_worker>>

(* The rest of play_ambience: the command is made and put on the queue, *)
(* and the handler returns.                                             *)
PlayAmbiencePut ==
    /\ tick_thread.in_play_ambience
    /\ audio_engine' =
           PutCommand(audio_engine, play_ambience(audio_engine, AmbienceAsked))
    /\ tick_thread' = [tick_thread EXCEPT
                           !.in_play_ambience = FALSE,
                           !.ambience_puts = @ + 1,
                           !.pc = AfterHandler]
    /\ UNCHANGED <<engine, observers, call, detector, detected, handoff,
                   audio_worker>>

(* _audio_worker: _command_queue.get() *)
AudioWorkerGet ==
    /\ audio_engine.running
    /\ audio_worker.cmd = << >>
    /\ audio_engine.command_queue # << >>
    /\ audio_worker' = [cmd |-> <<Head(audio_engine.command_queue)>>]
    /\ audio_engine' = [audio_engine EXCEPT !.command_queue = Tail(@)]
    /\ UNCHANGED <<engine, observers, call, detector, detected, handoff,
                   tick_thread>>

(* _process_command(cmd): _handle_play and _handle_fade_to write           *)
(* _current_ambience once the ambience plays, if its file could be loaded. *)
AudioWorkerHandle ==
    /\ audio_worker.cmd # << >>
    /\ \E loaded \in BOOLEAN :
           LET cmd == audio_worker.cmd[1]
           IN  audio_engine' =
                   IF loaded /\ cmd.layer = "AMBIENCE"
                      /\ cmd.action \in {"play", "fade_to"}
                   THEN [audio_engine EXCEPT !.current_ambience = cmd.filename]
                   ELSE audio_engine
    /\ audio_worker' = [cmd |-> << >>]
    /\ UNCHANGED <<engine, observers, call, detector, detected, handoff,
                   tick_thread>>

AudioNext ==
    \/ Run
    \/ \E labels \in TransitionLabels :
           /\ tick_thread.transitions < MaxTransitions
           /\ MoodTransition(labels[1], labels[2])
    \/ HandleMoodChange
    \/ HandleReaction
    \/ PlayAmbiencePut
    \/ AudioWorkerGet
    \/ AudioWorkerHandle

AudioSpec == Init /\ [][AudioNext]_vars

(***************************************************************************)
(* Claims                                                                  *)
(***************************************************************************)
(* A step that is one process_input call. *)
TickStep == ticks' = ticks + 1

(* C1. Stability delay: from a stable emotion that is absent, the first and *)
(* the second consecutive Happy sample (confidence at or above the minimum) *)
(* leave current_emotion at its prior value, and the third makes it Happy.  *)
C1_StabilityDelay ==
    (emotion_run.label = "HAPPY" /\ emotion_run.prior = None) =>
        /\ (emotion_run.len \in {1, 2} =>
                sm.current_emotion = emotion_run.prior)
        /\ (emotion_run.len = EmotionStabilityThreshold =>
                sm.current_emotion = "HAPPY")

(* C2. Cooldown suppression, on CooldownScript: the third Happy frame is    *)
(* the accepted transition to Joyful at t = 0; the third frame with nothing *)
(* detected, at t = 200 ms, proposes Neutral and must leave the mood Joyful *)
(* and the history at its one entry; the next such frame, at t = 600 ms,    *)
(* must be accepted: mood Neutral, a second history entry.                  *)
C2_CooldownSuppression ==
    /\ (cooldown_script.pos = 6 =>
            /\ sm.current_mood = "JOYFUL"
            /\ Len(sm.mood_history) = 1)
    /\ (cooldown_script.pos = 7 =>
            /\ sm.current_mood = "NEUTRAL"
            /\ Len(sm.mood_history) = 2)

(* C3. End-to-end mood reachability: when every frame since construction or *)
(* reset is Happy (confidence at or above the minimum) with no gesture,     *)
(* then from the third tick on the stable emotion is Happy and the mood is  *)
(* Joyful.                                                                  *)
C3_HappyReachesJoyful ==
    (only_happy /\ ticks >= EmotionStabilityThreshold) =>
        /\ sm.current_emotion = "HAPPY"
        /\ sm.current_mood = "JOYFUL"

LowConfidences == {0, 30, min_emotion_confidence - 1}

(* What a process_input call leaves behind, the input buffer aside (it     *)
(* keeps the frame as given).                                              *)
Outcome(r) == [r EXCEPT !.sm.input_buffer_len = 0]

(* C4. Confidence gating: in every reachable state, process_input on a      *)
(* frame carrying Happy below the minimum confidence gives the same engine  *)
(* (stabilizer state, stable emotion, mood), the same returned reaction and *)
(* the same listener calls as on that frame with the emotion absent.        *)
C4_ConfidenceGating ==
    \A g \in GestureSamples, c \in LowConfidences :
        LET frame == SensoryInput("HAPPY", c, g[1], g[2])
        IN  Outcome(process_input(sm, frame, clock))
              = Outcome(process_input(sm, [frame EXCEPT !.emotion = None],
                                      clock))

(* C4 witness: a Happy sample at confidence 0.3 was fed after an absent one *)
(* and counted as one more absent sample.                                   *)
C4_Witness ==
    /\ last_op = "process_input"
    /\ last_frame.emotion = "HAPPY"
    /\ last_frame.emotion_confidence = 30
    /\ emotion_run.label = None
    /\ emotion_run.len >= 2
    /\ sm.emotion_stable_count = emotion_run.len

(* Sad and Heart-Hand have each been fed at least three times running, and *)
(* the Heart-Hand run has lasted at least the hold duration.               *)
SadHeartHeld ==
    /\ emotion_run.label = "SAD"
    /\ emotion_run.len >= EmotionStabilityThreshold
    /\ gesture_run.label = "HEART_HAND"
    /\ gesture_run.len >= EmotionStabilityThreshold
    /\ clock - gesture_run.since >= gesture_hold_duration_ms

(* C5. Exact-pair reaction: a tick that ends a run of at least three Sad    *)
(* samples and of at least three Heart-Hand samples, the gesture run having *)
(* lasted at least the hold duration, returns a reaction carrying the sfx,  *)
(* the mood and the message of (Sad, Heart-Hand) in the reaction table.     *)
C5_ExactPairReaction ==
    [][(TickStep /\ SadHeartHeld') =>
         /\ result' # << >>
         /\ result'[1].sfx_to_play = "compassionate_chime.wav"
         /\ result'[1].mood = "EMPATHETIC"
         /\ result'[1].message =
                EMOTION_GESTURE_REACTIONS[<<"SAD", "HEART_HAND">>].message]_vars

(* C6. Reset idempotence: after one reset() or two in a row the engine is   *)
(* the same: a further reset() would change nothing, the mood is Neutral,   *)
(* the history empty, both stability counters 0 and both stable labels      *)
(* absent.                                                                  *)
C6_ResetIdempotent ==
    resets.count >= 1 =>
        /\ reset(sm) = sm
        /\ sm.current_mood = "NEUTRAL"
        /\ sm.mood_history = << >>
        /\ sm.emotion_stable_count = 0
        /\ sm.gesture_stable_count = 0
        /\ sm.last_stable_emotion = None
        /\ sm.last_stable_gesture = None

(* C6 witness: two reset() calls in a row, the first on an engine that had  *)
(* processed frames.                                                        *)
C6_Witness == resets.count = 2 /\ resets.dirty

(* C7. Reset is total: reset() can be called in every reachable state, and  *)
(* after it every mutable field has the value a freshly constructed engine  *)
(* gives it.                                                                *)
C7_ResetTotal ==
    /\ ENABLED Reset
    /\ last_op = "reset" => sm = InitialEngine

(* C7 witness: reset() was just called on an engine whose fields differed   *)
(* from a fresh engine's.                                                   *)
C7_Witness == last_op = "reset" /\ resets.count = 1 /\ resets.dirty

(* The mood a tick proposed, read off the stable labels it left. *)
Candidate(s) == calculate_mood(s.current_emotion, s.current_gesture)

(* Whether the guard of a tick from engine s at time now lets through the   *)
(* candidate the tick left in engine t.                                     *)
GuardPasses(s, t, now) ==
    /\ Candidate(t) # s.current_mood
    /\ now - s.last_state_change >= state_transition_cooldown_ms

SeparatedHistory(h) ==
    \A i \in 1..(Len(h) - 1) :
        h[i + 1].timestamp - h[i].timestamp >= state_transition_cooldown_ms

C9_GuardRejection ==
    [][(TickStep /\ ~GuardPasses(sm, sm', clock)) =>
         /\ sm'.current_mood = sm.current_mood
         /\ sm'.mood_history = sm.mood_history
         /\ sm'.last_state_change = sm.last_state_change
         /\ \A i \in 1..Len(callbacks') :
                callbacks'[i].fn # "on_mood_change"]_vars

(* C9 witness: a tick fed a gated-in sample, proposed the current mood and  *)
(* made no listener call.                                                   *)
C9_Witness ==
    /\ last_op = "process_input"
    /\ last_frame.emotion = "HAPPY"
    /\ last_frame.emotion_confidence >= min_emotion_confidence
    /\ Candidate(sm) = sm.current_mood
    /\ callbacks = << >>

(* Whether the tick that left engine s at time now selected an sfx. *)
SfxSelected(s, now) ==
    /\ Truthy(s.current_emotion)
    /\ Truthy(s.current_gesture)
    /\ <<s.current_emotion, s.current_gesture>>
           \in DOMAIN EMOTION_GESTURE_REACTIONS
    /\ is_gesture_held(s, now)

ReactionCalls(calls) ==
    { i \in 1..Len(calls) : calls[i].fn = "on_reaction" }

C11_ExactPairPrecedence ==
    Returned("calculate_mood") =>
        /\ call.args \in DOMAIN EMOTION_GESTURE_REACTIONS =>
               call.out = EMOTION_GESTURE_REACTIONS[call.args].mood
        /\ call.args = <<"SAD", "OPEN_PALM">> => call.out = "SUPPORTIVE"
        /\ call.args = <<"HAPPY", "HEART_HAND">> => call.out = "JOYFUL"

(* C11 witness: the call on (Sad, Open-Palm), for which the Open-Palm rule  *)
(* alone would give Empathetic, returned Supportive.                        *)
C11_Witness ==
    /\ Returned("calculate_mood")
    /\ call.args = <<"SAD", "OPEN_PALM">>
    /\ call.out = "SUPPORTIVE"

(* The mood the gesture rules and then the emotion rules give. *)
RuleMood(emotion, gesture) ==
    CASE gesture = "HEART_HAND" -> "SUPPORTIVE"
      [] gesture = "THUMB_UP" /\ emotion = "HAPPY" -> "CELEBRATORY"
      [] gesture = "THUMB_UP" /\ emotion # "HAPPY" -> "CALM"
      [] gesture = "INDEX_POINTING" -> "FOCUSED"
      [] gesture = "OPEN_PALM" /\ emotion = "SAD" -> "EMPATHETIC"
      [] gesture = "OPEN_PALM" /\ emotion # "SAD" -> "CALM"
      [] OTHER ->
            CASE emotion = "HAPPY" -> "JOYFUL"
              [] emotion = "SAD" -> "EMPATHETIC"
              [] emotion \in {"ANGRY", "FEAR"} -> "SUPPORTIVE"
              [] OTHER -> "NEUTRAL"

(* C12. Gesture priority, then emotion baseline: for every combination not  *)
(* in the reaction table (either part may be absent) _calculate_mood        *)
(* returns Supportive for Heart-Hand, Celebratory or Calm for Thumb-Up      *)
(* (Happy or not), Focused for Index-Pointing, Empathetic or Calm for       *)
(* Open-Palm (Sad or not), and for any other or absent gesture Joyful for   *)
(* Happy, Empathetic for Sad, Supportive for Angry or Fear, else Neutral.   *)
C12_GestureThenEmotion ==
    (Returned("calculate_mood")
        /\ call.args \notin DOMAIN EMOTION_GESTURE_REACTIONS) =>
        call.out = RuleMood(call.args[1], call.args[2])

(* C12 witness: the call on Fear with no gesture returned Supportive. *)
C12_Witness ==
    /\ Returned("calculate_mood")
    /\ call.args = <<"FEAR", None>>
    /\ call.out = "SUPPORTIVE"

(* The pair of a _get_reaction call is in the reaction table and the        *)
(* gesture start time is set and at least the hold duration old.            *)
SfxDue ==
    /\ call.args[1] # None
    /\ call.args[2] # None
    /\ <<call.args[1], call.args[2]>> \in DOMAIN EMOTION_GESTURE_REACTIONS
    /\ sm.gesture_start_time # 0
    /\ clock - sm.gesture_start_time >= gesture_hold_duration_ms

C14_AmbienceFlag ==
    Returned("get_reaction") =>
        /\ call.out.should_change_ambience = call.args[4]
        /\ call.out.ambience_to_play # None =>
               call.out.should_change_ambience

(* C14 witness: a call with the transition accepted returned the flag and   *)
(* the ambience of the new mood; the engine had a gesture start time.       *)
C14_Witness ==
    /\ Returned("get_reaction")
    /\ call.args[4]
    /\ call.out.should_change_ambience
    /\ call.out.ambience_to_play = MOOD_AMBIENCE[call.args[3]]
    /\ sm.gesture_start_time # 0

(* C15. Gesture start timestamp: after each tick the gesture start time is  *)
(* 0 when the tick's gated gesture sample is absent; a tick whose sample    *)
(* differs from the previous tick's sets it to the current time and a tick  *)
(* whose sample equals the previous tick's leaves it, so that for a present *)
(* sample it is the time at which the trailing run of that sample began.    *)
C15_GestureStartTimestamp ==
    ticks > 0 =>
        sm.gesture_start_time =
            IF gesture_run.label = None THEN 0 ELSE gesture_run.since

(* A step that is one call of the detector's _stabilize_gesture. *)
StabilizeStep == Len(detected'.fed) = Len(detected.fed) + 1

(* The last n labels of a sequence, all of them when it has fewer. *)
LastLabels(fed, n) ==
    SubSeq(fed, IF Len(fed) > n THEN Len(fed) - n + 1 ELSE 1, Len(fed))

(* Label g fills more than half of the window. *)
Majority(window, g) == 2 * Count(window, g) > Len(window)

(* C16 as claimed. Gesture majority vote: the stabilizer keeps the 5 most   *)
(* recent raw labels; the label a call returns is one that fills more than  *)
(* half of the window, or else the stable label accepted before (the label  *)
(* the stabilizer held, or the one it returned last), also on the first     *)
(* calls after start.                                                       *)
C16_MajorityVote ==
    [][StabilizeStep =>
         LET window == LastLabels(detected'.fed, GestureHistoryMaxLen)
         IN  /\ detector'.gesture_history = window
             /\ \/ Majority(window, detected'.out)
                \/ detected'.out = detector.last_stable_gesture
                \/ detected'.out = detected.out]_vars

(* C16 as amended: while the window holds fewer than 3 labels the call      *)
(* returns the raw label as given and accepts nothing; from the third label *)
(* on it accepts label g exactly when g fills more than half of the labels  *)
(* in the window, keeps the accepted label otherwise, and returns the       *)
(* accepted label.                                                          *)
C16_MajorityVoteAfterWarmUp ==
    [][StabilizeStep =>
         LET window == LastLabels(detected'.fed, GestureHistoryMaxLen)
             raw == detected'.fed[Len(detected'.fed)]
             accepted == detector'.last_stable_gesture
         IN  /\ detector'.gesture_history = window
             /\ Len(window) < GestureHistoryMinLen =>
                    /\ detected'.out = raw
                    /\ accepted = detector.last_stable_gesture
             /\ Len(window) >= GestureHistoryMinLen =>
                    /\ detected'.out = accepted
                    /\ \A g \in RawLabels : Majority(window, g) => accepted = g
                    /\ accepted # detector.last_stable_gesture =>
                           Majority(window, accepted)]_vars

(* C16 witness: the window is full and has slid, its majority label differs *)
(* from the label just given and is the one returned.                       *)
C16_Witness ==
    /\ Len(detected.fed) > GestureHistoryMaxLen
    /\ detected.out # detected.fed[Len(detected.fed)]
    /\ detected.out # detected.fed[1]
    /\ Majority(detector.gesture_history, detected.out)

JointsOf ==
    [index |-> <<INDEX_MCP, INDEX_PIP, INDEX_DIP, INDEX_TIP>>,
     middle |-> <<MIDDLE_MCP, MIDDLE_PIP, MIDDLE_DIP, MIDDLE_TIP>>,
     ring |-> <<RING_MCP, RING_PIP, RING_DIP, RING_TIP>>,
     pinky |-> <<PINKY_MCP, PINKY_PIP, PINKY_DIP, PINKY_TIP>>]

(* A finger is extended: both its joint angles are above 150 degrees. *)
Extended(landmarks, finger) ==
    LET j == JointsOf[finger]
    IN  /\ AngleAbove(angle(At(landmarks, j[1]), At(landmarks, j[2]),
                            At(landmarks, j[3])), 150)
        /\ AngleAbove(angle(At(landmarks, j[2]), At(landmarks, j[3]),
                            At(landmarks, j[4])), 150)

(* The Heart-Hand features: the thumb and index tips are closer than 0.3    *)
(* of the palm size, the index PIP angle is strictly between 90 and 160     *)
(* degrees, and one of middle, ring and pinky is not extended.              *)
HeartHandFeatures(landmarks) ==
    LET index_pip == angle(At(landmarks, INDEX_MCP), At(landmarks, INDEX_PIP),
                           At(landmarks, INDEX_DIP))
    IN  /\ ShorterThan(distance_squared(At(landmarks, THUMB_TIP),
                                        At(landmarks, INDEX_TIP)),
                       distance_squared(At(landmarks, WRIST),
                                        At(landmarks, MIDDLE_MCP)), 3)
        /\ AngleAbove(index_pip, 90)
        /\ AngleBelow(index_pip, 160)
        /\ \E finger \in {"middle", "ring", "pinky"} :
               ~Extended(landmarks, finger)

(* The Index-Pointing features: the index finger is extended; middle, ring  *)
(* and pinky are not.                                                       *)
IndexPointingFeatures(landmarks) ==
    /\ Extended(landmarks, "index")
    /\ \A finger \in {"middle", "ring", "pinky"} : ~Extended(landmarks, finger)

(* A call of _classify_gesture on a hand that has the Heart-Hand and the    *)
(* Index-Pointing features and is not a Thumb-Up.                           *)
HeartAndPointing ==
    /\ Returned("classify_gesture")
    /\ Len(call.args) = LandmarkCount
    /\ HeartHandFeatures(call.args)
    /\ IndexPointingFeatures(call.args)
    /\ ~is_thumb_up_gesture(call.args)

(* C18. Rule precedence in the classifier: a 21-landmark hand that has both *)
(* the Heart-Hand and the Index-Pointing features and is not a Thumb-Up is  *)
(* classified Heart-Hand with confidence 0.88.                              *)
C18_HeartBeforePointing ==
    HeartAndPointing => call.out = <<"HEART_HAND", 88>>

(* C18 witness: such a hand, its thumb tip near but not touching the tip of *)
(* the bowed index finger, was classified Heart-Hand.                       *)
C18_Witness ==
    /\ HeartAndPointing
    /\ call.args \in { Hand("near", "bowed", m, r, p) :
                          m \in OtherShapes, r \in OtherShapes,
                          p \in OtherShapes }
    /\ call.out = <<"HEART_HAND", 88>>

(* C19. Wrong-length input: _classify_gesture on a sequence whose length is *)
(* not 21, the empty one included, returns (GestureLabel.NONE, 0.0).        *)
C19_WrongLength ==
    (Returned("classify_gesture") /\ Len(call.args) # LandmarkCount) =>
        call.out = <<"NONE", 0>>

(* C19 witness: the calls on the empty sequence returned (NONE, 0.0). *)
C19_Witness ==
    /\ Returned("classify_gesture")
    /\ call.args = << >>
    /\ call.out = <<"NONE", 0>>

(* C20. Bounded reaction hand-off: the queue process_input_async puts       *)
(* reactions on has a fixed maximum length, and the number of reactions     *)
(* waiting on it never exceeds that length.                                 *)
C20_BoundedHandoff ==
    /\ reaction_queue.maxsize > 0
    /\ Len(reaction_queue.items) <= reaction_queue.maxsize

WellFormed(s) ==
    /\ s.current_mood \in MoodState
    /\ s.current_emotion \in OptionalEmotion
    /\ s.last_stable_emotion \in OptionalEmotion
    /\ s.current_gesture \in OptionalGesture
    /\ s.last_stable_gesture \in OptionalGesture
    /\ s.emotion_stable_count \in Nat
    /\ s.gesture_stable_count \in Nat
    /\ Len(s.mood_history) <= MoodHistoryMaxLen
    /\ s.input_buffer_len <= InputBufferMaxLen

(* C22. Totality of a tick: in every reachable state process_input can be   *)
(* called on every frame (emotion present or absent, gesture present or     *)
(* absent, confidences below, at and above the minimum), it returns None or *)
(* a Reaction whose mood is a MoodState, and it leaves the engine well      *)
(* formed.                                                                  *)
C22_TickTotal ==
    /\ WellFormed(sm)
    /\ \A frame \in Frames :
           LET r == process_input(sm, frame, clock)
           IN  /\ WellFormed(r.sm)
               /\ r.result # << >> => r.result[1].mood \in MoodState

(* C22 witness: a tick on a frame with no emotion and a Heart-Hand below    *)
(* the minimum confidence completed, after ticks on other frames, and the   *)
(* engine is well formed.                                                   *)
C22_Witness ==
    /\ last_op = "process_input"
    /\ last_frame = SensoryInput(None, 0, "HEART_HAND", 30)
    /\ ticks >= 3
    /\ sm.gesture_start_time # 0
    /\ WellFormed(sm)

(* C24. Stability counter: after every tick the emotion stability counter   *)
(* equals the length of the trailing run of identical gated raw emotion     *)
(* samples, whatever the accepted stable emotion is.                        *)
C24_CounterIsRunLength ==
    last_op = "process_input" => sm.emotion_stable_count = emotion_run.len

(* C26. Eventual sfx under a held pose: from a fresh engine fed only Sad    *)
(* and Heart-Hand frames while time advances, some process_input call       *)
(* returns a reaction carrying the sfx of (Sad, Heart-Hand).  Stated with   *)
(* the latest moment the stability threshold and the hold duration allow:   *)
(* once a tick is at least the third and comes at least the hold duration   *)
(* after the first, such a reaction has been returned.                      *)
C26_EventualSfx ==
    ( /\ last_op = "process_input"
      /\ ticks >= EmotionStabilityThreshold
      /\ ticks >= GestureStabilityThreshold
      /\ gesture_run.len = ticks
      /\ clock - gesture_run.since >= gesture_hold_duration_ms ) =>
        EMOTION_GESTURE_REACTIONS[<<"SAD", "HEART_HAND">>].sfx \in returned_sfx

(* C28. Heart-Hand predicate: _is_heart_hand_gesture recognises every hand  *)
(* whose thumb and index tips are closer than 0.3 of the palm size, whose   *)
(* index PIP angle is strictly between 90 and 160 degrees and of which at   *)
(* least one of middle, ring and pinky is not extended; a hand with middle  *)
(* and ring extended and the pinky not extended is among them.              *)
C28_HeartHandPredicate ==
    (Returned("is_heart_hand_gesture") /\ HeartHandFeatures(call.args)) =>
        call.out = TRUE

(* The OK-Sign features: the thumb and index tips are closer than 0.2 of    *)
(* the palm size, and middle, ring and pinky are extended.                  *)
OkSignFeatures(landmarks) ==
    /\ ShorterThan(distance_squared(At(landmarks, THUMB_TIP),
                                    At(landmarks, INDEX_TIP)),
                   distance_squared(At(landmarks, WRIST),
                                    At(landmarks, MIDDLE_MCP)), 2)
    /\ \A finger \in {"middle", "ring", "pinky"} : Extended(landmarks, finger)

(* The Peace-Sign features: index and middle are extended, ring and pinky   *)
(* are not.                                                                 *)
PeaceSignFeatures(landmarks) ==
    /\ \A finger \in {"index", "middle"} : Extended(landmarks, finger)
    /\ \A finger \in {"ring", "pinky"} : ~Extended(landmarks, finger)

(* The number of extended fingers of a hand, the thumb included. *)
FingersExtended(landmarks) ==
    Cardinality({ finger \in DOMAIN JointsOf : Extended(landmarks, finger) })
        + (IF is_thumb_extended(landmarks) THEN 1 ELSE 0)

(* The label and the confidence (in hundredths) the count rules give n      *)
(* extended fingers.                                                        *)
CountRule(n) ==
    IF n = 5 THEN <<"OPEN_PALM", 85>>
    ELSE IF n = 4 THEN <<"OPEN_PALM", 80>>
    ELSE IF n <= 1 THEN <<"CLOSED_FIST", 82>>
    ELSE IF n = 3 THEN <<"OPEN_PALM", 60>>
    ELSE <<"CLOSED_FIST", 55>>

(* A call of _classify_gesture on a 21-landmark hand that is neither a      *)
(* Thumb-Up nor a Heart-Hand for the detector.                              *)
PastHeartHand ==
    /\ Returned("classify_gesture")
    /\ Len(call.args) = LandmarkCount
    /\ ~is_thumb_up_gesture(call.args)
    /\ ~is_heart_hand_gesture(call.args)

LaterTimes == { t \in clock..MaxTime : (t - StartTime) % TimeStep = 0 }

C33_NoneIsAbsent ==
    [][(TickStep /\ last_frame'.gesture = "NONE") =>
         /\ sm' = process_input(sm, [last_frame' EXCEPT
                                        !.gesture = None,
                                        !.gesture_confidence = 0], clock).sm
         /\ sm'.gesture_start_time \in {sm.gesture_start_time, 0}]_vars

C35_AmbienceFromMoodTable ==
    /\ MoodState \subseteq DOMAIN MOOD_AMBIENCE
    /\ (Returned("get_reaction") /\ call.out.should_change_ambience) =>
           /\ call.out.mood \in MoodState
           /\ call.out.ambience_to_play # None
           /\ call.out.ambience_to_play = MOOD_AMBIENCE[call.out.mood]

(* C35 witness: a call for an accepted transition to Empathetic on a stable *)
(* Sad returned gentle_piano.wav, the mood's ambience, not gentle_rain.wav, *)
(* the emotion's.                                                           *)
C35_Witness ==
    /\ Returned("get_reaction")
    /\ call.args[1] = "SAD"
    /\ call.args[3] = "EMPATHETIC"
    /\ call.args[4]
    /\ call.out.ambience_to_play = "gentle_piano.wav"
    /\ EMOTION_AMBIENCE["SAD"] = "gentle_rain.wav"

ResetStep ==
    /\ last_op' = "reset"
    /\ <<sm, result, callbacks, observers>>' # <<sm, result, callbacks, observers>>

RuleConfidences == {92, 90, 88, 85, 82, 80, 60, 55}

====
